---------------------------- MODULE Spec2Model ----------------------------
(***************************************************************************)
(* A model of libbitcoin-node's console full node (src/console/main.cpp):  *)
(* the fullnode object (start, stop and its network / pool callbacks) and  *)
(* the command loop of main that drives it.                                *)
(*                                                                         *)
(* The control thread (main) is a sequential process whose position is pc. *)
(* The callbacks the external services fire (protocol_, channels, txpool_, *)
(* session_, the threadpools' workers) are actions of their own, enabled   *)
(* whenever the service holds the callback.                                *)
(***************************************************************************)
EXTENDS Integers, Sequences, FiniteSets

\* ---------------------------------------------------------------- bounds
\* Peer channels the network may establish.
MaxChannels == 1
\* Distinct transactions peers may deliver.
MaxTxs == 1
\* Error-free transaction deliveries handled by recv_tx, over all channels.
MaxDeliveries == 1
\* Lines other than "stop" the command loop reads.
MaxLines == 1
\* Failures the indexer reports back, over all requests.
MaxIndexerErrors == 1

\* ------------------------------------------------------ program constants
\* Threads each threadpool spawns (the constructor's initializer list).
NetThreads == 1
DiskThreads == 4
MemThreads == 1

Channels == 1..MaxChannels
Txs == 1..MaxTxs
Domains == {"net", "disk", "mem"}
ErrorCodes == {"ok", "err"}
\* What std::getline can hand the loop: the literal stop, an address that
\* decodes, one that does not, and the empty string (also what an exhausted
\* stdin yields).
Lines == {"stop", "valid", "invalid", ""}

LogKinds == {"session_stop_problem", "fullnode_start", "connection_warning",
             "receive_transaction", "handle_confirm", "confirm_error",
             "store_warning", "accepted", "index_error", "deindex_error",
             "invalid_address", "shutting_down"}

VARIABLES
    pc,             \* the control thread's position in main / start / stop
    chain_,         \* blockchain_impl: "constructed", "started", "failed", "stopped"
    txpool_,        \* transaction_pool: "constructed", "started"
    session_,       \* session: "constructed", "started", "stopping", "stopped"
    start_ec,       \* what session_.start's completion delivered: "none", "ok", "err"
    ec_promise,     \* std::promise<std::error_code> of stop(): "unset", "ok", "err"
    pools,          \* per domain: [stopped, active, joined]
    channel_subs,   \* live "next connection" subscriptions held by protocol_
    tx_subs,        \* per channel: live "next transaction" subscriptions
    established,    \* channels connection_started saw established without error
    rx,             \* transaction deliveries recv_tx has handled: [ok, err]
    recv_tx_calls,  \* the calls the latest run of recv_tx made, in order
    stores,         \* per transaction: txpool_.store calls
    fired,          \* per transaction: pool callbacks fired, by kind and outcome
    txidx_,         \* per transaction: requests issued to the indexer, in order
    log,            \* lines written per kind of message
    calls,          \* the control thread's calls into the subsystems, in order
    lines_read,     \* lines the loop has read, by kind: [stop, decoded, failed]
    queries         \* fetch_history calls issued by the loop

vars == <<pc, chain_, txpool_, session_, start_ec, ec_promise, pools,
          channel_subs, tx_subs, established, rx, recv_tx_calls, stores,
          fired, txidx_, log, calls, lines_read, queries>>

lifecycle == <<chain_, txpool_, session_, start_ec, ec_promise, pools>>
network == <<channel_subs, tx_subs, established, rx, recv_tx_calls>>
pipeline == <<stores, fired, txidx_>>
loop == <<lines_read, queries>>

\* ---------------------------------------------------------------- helpers
ThreadCount(d) ==
    CASE d = "net" -> NetThreads
      [] d = "disk" -> DiskThreads
      [] d = "mem" -> MemThreads

StopCall(d) ==
    CASE d = "net" -> "net_pool.stop"
      [] d = "disk" -> "disk_pool.stop"
      [] d = "mem" -> "mem_pool.stop"

JoinCall(d) ==
    CASE d = "net" -> "net_pool.join"
      [] d = "disk" -> "disk_pool.join"
      [] d = "mem" -> "mem_pool.join"

\* operator<< on one of the five log streams with a non-empty body.
Logged(kind) == [log EXCEPT ![kind] = @ + 1]

Call(name) == Append(calls, name)

\* ------------------------------------------------------------------- Init
\* The state after fullnode's constructor: three running threadpools with
\* their threads spawned, every service constructed and none started.
Init ==
    /\ pc = "start_subscribe"
    /\ chain_ = "constructed"
    /\ txpool_ = "constructed"
    /\ session_ = "constructed"
    /\ start_ec = "none"
    /\ ec_promise = "unset"
    /\ pools = [d \in Domains |->
                 [stopped |-> FALSE, active |-> ThreadCount(d), joined |-> FALSE]]
    /\ channel_subs = 0
    /\ tx_subs = [c \in Channels |-> 0]
    /\ established = {}
    /\ rx = [ok |-> 0, err |-> 0]
    /\ recv_tx_calls = <<>>
    /\ stores = [t \in Txs |-> 0]
    /\ fired = [t \in Txs |->
                 [admit_ok |-> 0, admit_err |-> 0, confirm_ok |-> 0, confirm_err |-> 0]]
    /\ txidx_ = [t \in Txs |-> <<>>]
    /\ log = [k \in LogKinds |-> 0]
    /\ calls = <<>>
    /\ lines_read = [stop |-> 0, decoded |-> 0, failed |-> 0]
    /\ queries = 0

\* ------------------------------------------------------- fullnode::start
\* StartSubscribe with the subscription forgotten.
StartWithoutSubscribe ==
    /\ pc = "start_subscribe"
    /\ pc' = "start_chain"
    /\ UNCHANGED <<lifecycle, network, pipeline, log, calls, loop>>

\* protocol_.subscribe_channel(bind(&fullnode::connection_started, ...))
StartSubscribe ==
    /\ pc = "start_subscribe"
    /\ channel_subs' = channel_subs + 1
    /\ calls' = Call("subscribe_channel")
    /\ pc' = "start_chain"
    /\ UNCHANGED <<lifecycle, tx_subs, established, rx, recv_tx_calls,
                   pipeline, log, loop>>

\* DEBUG_ONLY(bool chain_started =) chain_.start();
\* BITCOIN_ASSERT(chain_started);
\* Both macros expand to nothing in a build that defines NDEBUG: the result is
\* then dropped and start() goes on. In any other build a false result aborts
\* the process. ndebug is the build's choice.
StartChain ==
    /\ pc = "start_chain"
    /\ calls' = Call("chain.start")
    /\ \E chain_started \in BOOLEAN, ndebug \in BOOLEAN :
         /\ chain_' = IF chain_started THEN "started" ELSE "failed"
         /\ pc' = IF ~chain_started /\ ~ndebug THEN "aborted" ELSE "start_txpool"
    /\ UNCHANGED <<txpool_, session_, start_ec, ec_promise, pools, network,
                   pipeline, log, loop>>

\* txpool_.start();
StartTxpool ==
    /\ pc = "start_txpool"
    /\ txpool_' = "started"
    /\ calls' = Call("txpool.start")
    /\ pc' = "start_session"
    /\ UNCHANGED <<chain_, session_, start_ec, ec_promise, pools, network,
                   pipeline, log, loop>>

\* session_.start(handle_start);
StartSession ==
    /\ pc = "start_session"
    /\ session_' = "started"
    /\ calls' = Call("session.start")
    /\ pc' = "loop"
    /\ UNCHANGED <<chain_, txpool_, start_ec, ec_promise, pools, network,
                   pipeline, log, loop>>

start == StartSubscribe \/ StartChain \/ StartTxpool \/ StartSession

\* fullnode::handle_start
handle_start(ec) ==
    /\ start_ec' = ec
    /\ log' = IF ec # "ok" THEN Logged("fullnode_start") ELSE log

\* The session fires the completion it was handed, once its startup has ended.
SessionStartCompletes ==
    /\ session_ # "constructed"
    /\ start_ec = "none"
    /\ ~pools["net"].stopped
    /\ \E ec \in ErrorCodes : handle_start(ec)
    /\ UNCHANGED <<pc, chain_, txpool_, session_, ec_promise, pools, network,
                   pipeline, calls, loop>>

\* -------------------------------------------------------- fullnode::stop
\* StopSession with the request to stop the session left out.
StopWithoutSessionStop ==
    /\ pc = "stop_session"
    /\ pc' = "stop_chain"
    /\ UNCHANGED <<lifecycle, network, pipeline, log, calls, loop>>

\* session_.stop(session_stopped);
StopSession ==
    /\ pc = "stop_session"
    /\ session_' = "stopping"
    /\ calls' = Call("session.stop")
    /\ pc' = "stop_wait"
    /\ UNCHANGED <<chain_, txpool_, start_ec, ec_promise, pools, network,
                   pipeline, log, loop>>

\* The lambda session_stopped: ec_promise.set_value(ec).
session_stopped(ec) ==
    ec_promise' = ec

\* The session fires the stop callback it was handed, once.
SessionStopCompletes ==
    /\ session_ = "stopping"
    /\ ~pools["net"].stopped
    /\ session_' = "stopped"
    /\ \E ec \in ErrorCodes : session_stopped(ec)
    /\ UNCHANGED <<pc, chain_, txpool_, start_ec, pools, network, pipeline,
                   log, calls, loop>>

\* FutureReady with the wait on the future left out.
FutureNotAwaited == TRUE

\* ec_promise.get_future().get() returns only once the promise holds a value.
FutureReady == ec_promise # "unset"

\* StopWait giving up the shutdown when the session reports an error.
StopWaitAbortOnError ==
    /\ pc = "stop_wait"
    /\ FutureReady
    /\ log' = IF ec_promise = "err" THEN Logged("session_stop_problem") ELSE log
    /\ pc' = IF ec_promise = "err" THEN "aborted" ELSE "stop_chain"
    /\ UNCHANGED <<lifecycle, network, pipeline, calls, loop>>

\* std::error_code ec = ec_promise.get_future().get();
\* if (ec) log_error() << "Problem stopping session: " << ec.message();
StopWait ==
    /\ pc = "stop_wait"
    /\ FutureReady
    /\ log' = IF ec_promise = "err" THEN Logged("session_stop_problem") ELSE log
    /\ pc' = "stop_chain"
    /\ UNCHANGED <<lifecycle, network, pipeline, calls, loop>>

\* chain_.stop();
StopChain ==
    /\ pc = "stop_chain"
    /\ chain_' = "stopped"
    /\ calls' = Call("chain.stop")
    /\ pc' = "stop_net"
    /\ UNCHANGED <<txpool_, session_, start_ec, ec_promise, pools, network,
                   pipeline, log, loop>>

\* threadpool::stop: signal the domain's workers to stop.
PoolStop(d, next) ==
    /\ pools' = [pools EXCEPT ![d].stopped = TRUE]
    /\ calls' = Call(StopCall(d))
    /\ pc' = next
    /\ UNCHANGED <<chain_, txpool_, session_, start_ec, ec_promise, network,
                   pipeline, log, loop>>

\* threadpool::join returns once every worker thread of the domain has exited.
JoinReady(d) == pools[d].active = 0

PoolJoin(d, next) ==
    /\ JoinReady(d)
    /\ pools' = [pools EXCEPT ![d].joined = TRUE]
    /\ calls' = Call(JoinCall(d))
    /\ pc' = next
    /\ UNCHANGED <<chain_, txpool_, session_, start_ec, ec_promise, network,
                   pipeline, log, loop>>

\* StopPools with each domain joined right after it is stopped.
StopPoolsJoinEach ==
    \/ pc = "stop_net" /\ PoolStop("net", "join_net")
    \/ pc = "stop_disk" /\ PoolStop("disk", "join_disk")
    \/ pc = "stop_mem" /\ PoolStop("mem", "join_mem")

\* net_pool_.stop(); disk_pool_.stop(); mem_pool_.stop();
StopPools ==
    \/ pc = "stop_net" /\ PoolStop("net", "stop_disk")
    \/ pc = "stop_disk" /\ PoolStop("disk", "stop_mem")
    \/ pc = "stop_mem" /\ PoolStop("mem", "join_net")

\* JoinPools with mem_pool_.join() left out.
JoinPoolsButMem ==
    \/ pc = "join_net" /\ PoolJoin("net", "join_disk")
    \/ pc = "join_disk" /\ PoolJoin("disk", "done")

\* net_pool_.join(); disk_pool_.join(); mem_pool_.join();
JoinPools ==
    \/ pc = "join_net" /\ PoolJoin("net", "join_disk")
    \/ pc = "join_disk" /\ PoolJoin("disk", "join_mem")
    \/ pc = "join_mem" /\ PoolJoin("mem", "done")

stop == StopSession \/ StopWait \/ StopChain \/ StopPools \/ JoinPools

\* The domain whose join the control thread is waiting in, if any.
Joining(d) ==
    \/ pc = "join_net" /\ d = "net"
    \/ pc = "join_disk" /\ d = "disk"
    \/ pc = "join_mem" /\ d = "mem"

\* A worker thread of a stopped threadpool leaves its run loop and exits.
\* Nothing but the domain's join observes the exit, so it is taken while the
\* control thread waits in that join.
WorkerExits ==
    \E d \in Domains :
        /\ pools[d].stopped
        /\ Joining(d)
        /\ pools[d].active > 0
        /\ pools' = [pools EXCEPT ![d].active = @ - 1]
        /\ UNCHANGED <<pc, chain_, txpool_, session_, start_ec, ec_promise,
                       network, pipeline, log, calls, loop>>

\* ------------------------------------------------- the subscription fabric
\* A registration is one-shot: firing it takes it out of the subscriber's list
\* before the handler runs.
Fired(n) == n - 1

\* Channel and connection events are delivered by the network domain's thread
\* once the session has started up and until it has stopped.
NetworkActive ==
    /\ start_ec = "ok"
    /\ session_ \in {"started", "stopping"}
    /\ ~pools["net"].stopped

\* connection_started subscribing to the channel before it looks at ec.
connection_started_subscribe_first(ec, node) ==
    /\ tx_subs' = [tx_subs EXCEPT ![node] = @ + 1]
    /\ IF ec # "ok"
       THEN /\ log' = Logged("connection_warning")
            /\ channel_subs' = Fired(channel_subs)
            /\ UNCHANGED established
       ELSE /\ channel_subs' = Fired(channel_subs) + 1
            /\ established' = established \cup {node}
            /\ UNCHANGED log

\* fullnode::connection_started
connection_started(ec, node) ==
    IF ec # "ok"
    THEN /\ log' = Logged("connection_warning")
         /\ channel_subs' = Fired(channel_subs)
         /\ UNCHANGED <<tx_subs, established>>
    ELSE /\ tx_subs' = [tx_subs EXCEPT ![node] = @ + 1]
         /\ channel_subs' = Fired(channel_subs) + 1
         /\ established' = established \cup {node}
         /\ UNCHANGED log

\* Channels and transactions are numbered in the order the node first sees
\* them: the next new one takes the least number not yet taken.
Least(S) == {x \in S : \A y \in S : x <= y}

NewChannel == Least(Channels \ established)

SeenOrNewTx == {t \in Txs : stores[t] > 0} \cup Least({t \in Txs : stores[t] = 0})

\* protocol_ fires the connection subscription for a channel not seen before.
ConnectionEvent ==
    /\ NetworkActive
    /\ channel_subs > 0
    /\ \E ec \in ErrorCodes, node \in NewChannel :
         connection_started(ec, node)
    /\ UNCHANGED <<pc, lifecycle, rx, recv_tx_calls, pipeline, calls, loop>>

\* What recv_tx calls on a delivery without error: txpool_.store with the
\* transaction (handle_confirm and the bound new_unconfirm_valid_tx both hold
\* a copy of it), then node->subscribe_transaction.
StoreCall(tx) == "txpool.store"
SubscribeCall(node) == "subscribe_transaction"

\* recv_tx registering two subscriptions where it renews.
recv_tx_subscribe_twice(ec, tx, node) ==
    IF ec # "ok"
    THEN /\ log' = Logged("receive_transaction")
         /\ tx_subs' = [tx_subs EXCEPT ![node] = Fired(@)]
         /\ rx' = [rx EXCEPT !.err = @ + 1]
         /\ recv_tx_calls' = <<>>
         /\ UNCHANGED stores
    ELSE /\ stores' = [stores EXCEPT ![tx] = @ + 1]
         /\ tx_subs' = [tx_subs EXCEPT ![node] = Fired(@) + 2]
         /\ rx' = [rx EXCEPT !.ok = @ + 1]
         /\ recv_tx_calls' = <<StoreCall(tx), SubscribeCall(node), SubscribeCall(node)>>
         /\ UNCHANGED log

\* recv_tx renewing the subscription before it submits to the pool.
recv_tx_subscribe_first(ec, tx, node) ==
    IF ec # "ok"
    THEN /\ log' = Logged("receive_transaction")
         /\ tx_subs' = [tx_subs EXCEPT ![node] = Fired(@)]
         /\ rx' = [rx EXCEPT !.err = @ + 1]
         /\ recv_tx_calls' = <<>>
         /\ UNCHANGED stores
    ELSE /\ tx_subs' = [tx_subs EXCEPT ![node] = Fired(@) + 1]
         /\ stores' = [stores EXCEPT ![tx] = @ + 1]
         /\ rx' = [rx EXCEPT !.ok = @ + 1]
         /\ recv_tx_calls' = <<SubscribeCall(node), StoreCall(tx)>>
         /\ UNCHANGED log

\* fullnode::recv_tx
recv_tx(ec, tx, node) ==
    IF ec # "ok"
    THEN /\ log' = Logged("receive_transaction")
         /\ tx_subs' = [tx_subs EXCEPT ![node] = Fired(@)]
         /\ rx' = [rx EXCEPT !.err = @ + 1]
         /\ recv_tx_calls' = <<>>
         /\ UNCHANGED stores
    ELSE /\ stores' = [stores EXCEPT ![tx] = @ + 1]
         /\ tx_subs' = [tx_subs EXCEPT ![node] = Fired(@) + 1]
         /\ rx' = [rx EXCEPT !.ok = @ + 1]
         /\ recv_tx_calls' = <<StoreCall(tx), SubscribeCall(node)>>
         /\ UNCHANGED log

\* A channel fires its transaction subscription.
TxDelivery ==
    /\ NetworkActive
    /\ \E node \in Channels, ec \in ErrorCodes, tx \in SeenOrNewTx :
         /\ tx_subs[node] > 0
         /\ ec = "ok" => rx.ok < MaxDeliveries
         /\ recv_tx(ec, tx, node)
    /\ UNCHANGED <<pc, lifecycle, channel_subs, established, fired, txidx_,
                   calls, loop>>

\* -------------------------------------------- transaction admission pipeline
\* Pool and indexer work runs on the memory domain's thread.
MemActive == ~pools["mem"].stopped

\* Callbacks the pool still holds for tx: each store hands it one admission
\* callback and one confirmation callback, and it fires each once.
PendingAdmission(tx) == stores[tx] - fired[tx].admit_ok - fired[tx].admit_err

PendingConfirm(tx) == stores[tx] - fired[tx].confirm_ok - fired[tx].confirm_err

\* new_unconfirm_valid_tx with the index request forgotten on acceptance.
new_unconfirm_valid_tx_no_index(ec, tx) ==
    /\ IF ec # "ok"
       THEN /\ log' = Logged("store_warning")
            /\ fired' = [fired EXCEPT ![tx].admit_err = @ + 1]
       ELSE /\ log' = Logged("accepted")
            /\ fired' = [fired EXCEPT ![tx].admit_ok = @ + 1]
    /\ UNCHANGED txidx_

\* new_unconfirm_valid_tx with the index request moved out of the else branch.
new_unconfirm_valid_tx_always_index(ec, tx) ==
    /\ IF ec # "ok"
       THEN /\ log' = Logged("store_warning")
            /\ fired' = [fired EXCEPT ![tx].admit_err = @ + 1]
       ELSE /\ log' = Logged("accepted")
            /\ fired' = [fired EXCEPT ![tx].admit_ok = @ + 1]
    /\ txidx_' = [txidx_ EXCEPT ![tx] = Append(@, "index")]

\* fullnode::new_unconfirm_valid_tx
new_unconfirm_valid_tx(ec, tx) ==
    IF ec # "ok"
    THEN /\ log' = Logged("store_warning")
         /\ fired' = [fired EXCEPT ![tx].admit_err = @ + 1]
         /\ UNCHANGED txidx_
    ELSE /\ log' = Logged("accepted")
         /\ fired' = [fired EXCEPT ![tx].admit_ok = @ + 1]
         /\ txidx_' = [txidx_ EXCEPT ![tx] = Append(@, "index")]

\* handle_confirm returning after it logged a confirmation error.
handle_confirm_return_on_error(ec, tx) ==
    IF ec # "ok"
    THEN /\ log' = [log EXCEPT !["handle_confirm"] = @ + 1,
                               !["confirm_error"] = @ + 1]
         /\ fired' = [fired EXCEPT ![tx].confirm_err = @ + 1]
         /\ UNCHANGED txidx_
    ELSE /\ log' = Logged("handle_confirm")
         /\ fired' = [fired EXCEPT ![tx].confirm_ok = @ + 1]
         /\ txidx_' = [txidx_ EXCEPT ![tx] = Append(@, "deindex")]

\* handle_confirm deindexing only a transaction it has seen indexed.
handle_confirm_if_indexed(ec, tx) ==
    /\ IF ec # "ok"
       THEN /\ log' = [log EXCEPT !["handle_confirm"] = @ + 1,
                                  !["confirm_error"] = @ + 1]
            /\ fired' = [fired EXCEPT ![tx].confirm_err = @ + 1]
       ELSE /\ log' = Logged("handle_confirm")
            /\ fired' = [fired EXCEPT ![tx].confirm_ok = @ + 1]
    /\ txidx_' = IF fired[tx].admit_ok > 0
                 THEN [txidx_ EXCEPT ![tx] = Append(@, "deindex")]
                 ELSE txidx_

\* The lambda handle_confirm of recv_tx.
handle_confirm(ec, tx) ==
    /\ IF ec # "ok"
       THEN /\ log' = [log EXCEPT !["handle_confirm"] = @ + 1,
                                  !["confirm_error"] = @ + 1]
            /\ fired' = [fired EXCEPT ![tx].confirm_err = @ + 1]
       ELSE /\ log' = Logged("handle_confirm")
            /\ fired' = [fired EXCEPT ![tx].confirm_ok = @ + 1]
    /\ txidx_' = [txidx_ EXCEPT ![tx] = Append(@, "deindex")]

\* The pool reports the admission or rejection of a stored transaction.
AdmissionCallback ==
    /\ MemActive
    /\ \E tx \in Txs, ec \in ErrorCodes :
         /\ PendingAdmission(tx) > 0
         /\ new_unconfirm_valid_tx(ec, tx)
    /\ UNCHANGED <<pc, lifecycle, network, stores, calls, loop>>

\* The pool reports the confirmation (or the eviction) of a stored
\* transaction; it does not order this after the admission callback.
ConfirmCallback ==
    /\ MemActive
    /\ \E tx \in Txs, ec \in ErrorCodes :
         /\ PendingConfirm(tx) > 0
         /\ handle_confirm(ec, tx)
    /\ UNCHANGED <<pc, lifecycle, network, stores, calls, loop>>

\* Requests of a kind issued to the indexer, over all transactions.
RECURSIVE Requests(_, _)
Requests(kind, S) ==
    IF S = {} THEN 0
    ELSE LET t == CHOOSE x \in S : TRUE
         IN Cardinality({i \in 1..Len(txidx_[t]) : txidx_[t][i] = kind})
              + Requests(kind, S \ {t})

\* The lambda handle_index of new_unconfirm_valid_tx.
handle_index(ec) ==
    log' = IF ec # "ok" THEN Logged("index_error") ELSE log

\* The lambda handle_deindex of recv_tx.
handle_deindex(ec) ==
    log' = IF ec # "ok" THEN Logged("deindex_error") ELSE log

\* The indexer reports the outcome of a request to the handler it was given,
\* once per request. A report without error leaves the handler nothing to do,
\* so what the reports leave behind is the failures logged: at most one per
\* request of the kind.
IndexerCompletes ==
    /\ MemActive
    /\ \E ec \in ErrorCodes :
         /\ ec # "ok" => log["index_error"] + log["deindex_error"] < MaxIndexerErrors
         /\ \/ /\ log["index_error"] < Requests("index", Txs)
               /\ handle_index(ec)
            \/ /\ log["deindex_error"] < Requests("deindex", Txs)
               /\ handle_deindex(ec)
    /\ UNCHANGED <<pc, lifecycle, network, pipeline, calls, loop>>

\* ------------------------------------------------------- main's command loop
\* payment_address::set_encoded: whether the line decodes as an address.
set_encoded(addr) == addr = "valid"

\* lines_read with one more line of addr's kind: the literal stop, a line that
\* decodes as an address, or one that does not.
Read(addr) ==
    IF addr = "stop" THEN [lines_read EXCEPT !.stop = @ + 1]
    ELSE IF set_encoded(addr) THEN [lines_read EXCEPT !.decoded = @ + 1]
    ELSE [lines_read EXCEPT !.failed = @ + 1]

\* ReadLine with the continue after the logged error left out.
ReadLineWithoutContinue ==
    /\ pc = "loop"
    /\ \E addr \in Lines :
         /\ lines_read' = Read(addr)
         /\ IF addr = "stop"
            THEN /\ pc' = "stop_session"
                 /\ log' = Logged("shutting_down")
                 /\ calls' = Call("stop")
                 /\ UNCHANGED queries
            ELSE /\ lines_read.decoded + lines_read.failed < MaxLines
                 /\ pc' = "loop"
                 /\ log' = IF set_encoded(addr) THEN log ELSE Logged("invalid_address")
                 /\ queries' = queries + 1
                 /\ UNCHANGED calls
    /\ UNCHANGED <<lifecycle, network, pipeline>>

\* ReadLine leaving the loop on an empty line as well.
ReadLineBreakOnEmpty ==
    /\ pc = "loop"
    /\ \E addr \in Lines :
         /\ lines_read' = Read(addr)
         /\ IF addr = "stop" \/ addr = ""
            THEN /\ pc' = "stop_session"
                 /\ log' = Logged("shutting_down")
                 /\ calls' = Call("stop")
                 /\ UNCHANGED queries
            ELSE /\ lines_read.decoded + lines_read.failed < MaxLines
                 /\ pc' = "loop"
                 /\ UNCHANGED calls
                 /\ IF set_encoded(addr)
                    THEN queries' = queries + 1 /\ UNCHANGED log
                    ELSE log' = Logged("invalid_address") /\ UNCHANGED queries
    /\ UNCHANGED <<lifecycle, network, pipeline>>

\* One iteration of while (true): read a line; "stop" leaves the loop, logs
\* "Shutting down..." and calls app.stop(); a line that does not decode is
\* logged and skipped; a line that decodes is handed to fetch_history.
ReadLine ==
    /\ pc = "loop"
    /\ \E addr \in Lines :
         /\ lines_read' = Read(addr)
         /\ IF addr = "stop"
            THEN /\ pc' = "stop_session"
                 /\ log' = Logged("shutting_down")
                 /\ calls' = Call("stop")
                 /\ UNCHANGED queries
            ELSE /\ lines_read.decoded + lines_read.failed < MaxLines
                 /\ pc' = "loop"
                 /\ UNCHANGED calls
                 /\ IF set_encoded(addr)
                    THEN queries' = queries + 1 /\ UNCHANGED log
                    ELSE log' = Logged("invalid_address") /\ UNCHANGED queries
    /\ UNCHANGED <<lifecycle, network, pipeline>>

Next ==
    \/ start
    \/ SessionStartCompletes
    \/ ConnectionEvent
    \/ TxDelivery
    \/ AdmissionCallback
    \/ ConfirmCallback
    \/ IndexerCompletes
    \/ ReadLine
    \/ stop
    \/ SessionStopCompletes
    \/ WorkerExits

Spec == Init /\ [][Next]_vars

\* The control thread keeps running stop(), the session fires the stop
\* callback it was handed, and the workers of a stopped threadpool exit.
FairSpec ==
    /\ Spec
    /\ WF_vars(stop)
    /\ WF_vars(SessionStopCompletes)
    /\ WF_vars(WorkerExits)

\* ------------------------------------------------------------------ claims
Min(a, b) == IF a < b THEN a ELSE b

RECURSIVE Count(_, _)
Count(s, e) ==
    IF s = <<>> THEN 0
    ELSE (IF Head(s) = e THEN 1 ELSE 0) + Count(Tail(s), e)

RECURSIVE SumOver(_, _)
SumOver(f, S) ==
    IF S = {} THEN 0
    ELSE LET x == CHOOSE y \in S : TRUE
         IN f[x] + SumOver(f, S \ {x})

Indexed(tx) == Count(txidx_[tx], "index")
Deindexed(tx) == Count(txidx_[tx], "deindex")
Confirmations(tx) == fired[tx].confirm_ok + fired[tx].confirm_err

\* C1: storage is closed (chain_.stop()) only after the session's stop
\* callback has fired: in no state is the chain stopped while the promise of
\* this stop() call is still unset or the session has not completed its stop.
C1_StorageClosedAfterSessionStopped ==
    chain_ = "stopped" => (ec_promise # "unset" /\ session_ = "stopped")

C1_Witness == chain_ = "stopped" /\ ec_promise # "unset"

\* C2: in every state where stop() has returned, each of the three domains
\* has been signalled to stop, has no active worker thread and was joined.
C2_StopReturnsAfterAllJoined ==
    pc = "done" =>
        \A d \in Domains :
            pools[d].stopped /\ pools[d].active = 0 /\ pools[d].joined

C2_Witness == pc = "done" /\ \A d \in Domains : pools[d].active = 0

\* C3 (as claimed): once start() has registered the initial connection
\* subscription, exactly one "next connection" subscription is live after
\* every connection event, whether it carried an error or not.
C3_OneConnectionSubscription ==
    pc # "start_subscribe" => channel_subs = 1

\* C4 (as claimed): a transaction delivery that carries an error code leaves
\* every channel that had a live transaction subscription with a live one.
C4_ErrorDeliveryKeepsSubscription ==
    [][rx'.err = rx.err + 1 =>
          \A c \in Channels : tx_subs[c] > 0 => tx_subs'[c] > 0]_vars

\* C5 (as claimed): the number of live "next transaction" subscriptions
\* equals the number of successfully established channels.
C5_TxSubscriptionsMatchChannels ==
    SumOver(tx_subs, Channels) = Cardinality(established)

\* C6 (as claimed): the indexer requests for a transaction alternate, index
\* first: no deindex without an index before it, no two index requests
\* without a deindex between them.
C6_IndexDeindexAlternate ==
    \A tx \in Txs : \A i \in 1..Len(txidx_[tx]) :
        txidx_[tx][i] = (IF i % 2 = 1 THEN "index" ELSE "deindex")

\* C6 (amended): for every transaction the pipeline has issued exactly one
\* index request per admission callback that reported success and exactly one
\* deindex request per confirmation callback fired, so at most one of each
\* per submission to the pool; it orders neither after the other.
C6_OneRequestPerCallback ==
    \A tx \in Txs :
        /\ Indexed(tx) = fired[tx].admit_ok
        /\ Deindexed(tx) = Confirmations(tx)
        /\ Indexed(tx) <= stores[tx]
        /\ Deindexed(tx) <= stores[tx]
        /\ Len(txidx_[tx]) = Indexed(tx) + Deindexed(tx)

C6_Witness ==
    \E tx \in Txs : stores[tx] = 1 /\ txidx_[tx] = <<"deindex", "index">>

\* C7: an admission callback reporting success issues exactly one index
\* request, a confirmation callback reporting success exactly one deindex
\* request, and nothing else issues a request; so a transaction delivered
\* once, admitted and confirmed without error has exactly one index and one
\* deindex request in total.
C7_AdmitIndexesConfirmDeindexes ==
    [][\A tx \in Txs :
          /\ fired'[tx].admit_ok = fired[tx].admit_ok + 1
                => txidx_'[tx] = Append(txidx_[tx], "index")
          /\ fired'[tx].confirm_ok = fired[tx].confirm_ok + 1
                => txidx_'[tx] = Append(txidx_[tx], "deindex")
          /\ fired'[tx] = fired[tx] => txidx_'[tx] = txidx_[tx]
          /\ (stores'[tx] = 1 /\ fired'[tx].admit_ok = 1 /\ fired'[tx].confirm_ok = 1)
                => (Count(txidx_'[tx], "index") = 1
                    /\ Count(txidx_'[tx], "deindex") = 1)]_vars

C7_Witness ==
    \E tx \in Txs :
        /\ stores[tx] = 1
        /\ fired[tx].admit_ok = 1
        /\ fired[tx].confirm_ok = 1
        /\ txidx_[tx] = <<"index", "deindex">>

\* Every admission callback fired for tx so far reported a rejection.
Rejected(tx) == fired[tx].admit_err > 0 /\ fired[tx].admit_ok = 0

\* C8 (as claimed): a rejected transaction has no index request and no
\* deindex request, whatever callback the pool fires for it, and a warning
\* was logged.
C8_RejectedNeverIndexedNorDeindexed ==
    \A tx \in Txs :
        Rejected(tx) => (txidx_[tx] = <<>> /\ log["store_warning"] > 0)

\* C8 (amended): a rejected transaction has no index request and a warning
\* was logged for each rejection; it has a deindex request exactly for each
\* confirmation callback the pool fired for it.
C8_RejectedNeverIndexed ==
    \A tx \in Txs :
        Rejected(tx) =>
            /\ Indexed(tx) = 0
            /\ Deindexed(tx) = Confirmations(tx)
            /\ log["store_warning"] >= fired[tx].admit_err

C8_Witness ==
    \E tx \in Txs :
        /\ fired[tx].admit_err = 1
        /\ fired[tx].confirm_err = 1
        /\ txidx_[tx] = <<"deindex">>
        /\ log["store_warning"] = 1

StartOrder == <<"subscribe_channel", "chain.start", "txpool.start", "session.start">>

C10_FailedStorageStartsNothing ==
    chain_ = "failed" => (txpool_ = "constructed" /\ session_ = "constructed")

LoopLines == lines_read.decoded + lines_read.failed

C12_StopExactlyOnStopLine ==
    /\ Count(calls, "stop") = lines_read.stop
    /\ lines_read.stop <= 1
    /\ lines_read.stop = 1 <=>
          pc \notin {"start_subscribe", "start_chain", "start_txpool",
                     "start_session", "aborted", "loop"}
    /\ lines_read.stop = 0 /\ LoopLines > 0 => pc = "loop"

C12_Witness ==
    /\ lines_read.stop = 1
    /\ lines_read.failed = 1
    /\ Count(calls, "session.stop") = 1

\* C13: every channel has at most one live transaction subscription:
\* connection_started registers exactly one on a newly established channel,
\* and a run of recv_tx takes the current one and registers at most one.
C13_OneTxSubscriptionPerChannel ==
    [][\A c \in Channels :
          /\ tx_subs'[c] <= 1
          /\ c \in established' \ established => tx_subs'[c] = tx_subs[c] + 1
          /\ rx' # rx => tx_subs'[c] \in {tx_subs[c] - 1, tx_subs[c]}]_vars

C13_Witness ==
    \E c \in established : rx.ok = 1 /\ tx_subs[c] = 1

\* C14: every firing of the confirmation callback for a transaction, with or
\* without an error code and whatever was indexed before, appends exactly one
\* deindex request for it; a deindex failure reported back adds a log line
\* and changes nothing of the pipeline or the subscriptions.
C14_ConfirmAlwaysDeindexes ==
    [][/\ \A tx \in Txs :
             (fired'[tx].confirm_ok + fired'[tx].confirm_err
                 = fired[tx].confirm_ok + fired[tx].confirm_err + 1)
             => txidx_'[tx] = Append(txidx_[tx], "deindex")
       /\ log'["deindex_error"] # log["deindex_error"] =>
             /\ log' = [log EXCEPT !["deindex_error"] = @ + 1]
             /\ UNCHANGED <<pipeline, network, lifecycle>>]_vars

C14_Witness ==
    \E tx \in Txs :
        /\ fired[tx].confirm_err = 1
        /\ fired[tx].admit_ok = 0
        /\ txidx_[tx] = <<"deindex">>
        /\ log["deindex_error"] = 1

\* C15: once the control thread has entered stop(), it eventually returns
\* with storage closed and all three domains stopped and joined, whether the
\* session's stop callback reported an error or not, given that the callback
\* fires and the workers of a stopped domain exit.
C15_StopReturns ==
    (pc = "stop_session") ~>
        (/\ pc = "done"
         /\ chain_ = "stopped"
         /\ \A d \in Domains : pools[d].stopped /\ pools[d].joined)

C15_Witness ==
    /\ pc = "done"
    /\ ec_promise = "err"
    /\ log["session_stop_problem"] = 1
    /\ chain_ = "stopped"

\* C16: once storage is closed, no recv_tx run submits a transaction to the
\* pool and no connection_started run happens.
C16_NoNetworkCallbackAfterStorageClosed ==
    [][chain_ = "stopped" =>
          /\ stores' = stores
          /\ rx' = rx
          /\ tx_subs' = tx_subs
          /\ established' = established
          /\ channel_subs' = channel_subs]_vars

C16_Witness ==
    /\ chain_ = "stopped"
    /\ ~pools["net"].stopped
    /\ \E c \in Channels : tx_subs[c] = 1

\* C17: a connection event that carries an error registers no transaction
\* subscription: handling it leaves the subscriptions of every channel and
\* the set of established channels as they were.
C17_FailedConnectionNotSubscribed ==
    [][log'["connection_warning"] = log["connection_warning"] + 1 =>
          tx_subs' = tx_subs /\ established' = established]_vars

C17_Witness ==
    /\ log["connection_warning"] = 1
    /\ channel_subs = 0
    /\ \A c \in Channels : tx_subs[c] = 0

\* C18: a delivery without error makes recv_tx call txpool_.store once, for
\* one transaction, before it renews the subscription; a delivery with an
\* error makes it call neither; so the store calls equal the error-free
\* deliveries handled.
C18_OneStorePerDelivery ==
    [][/\ rx'.ok = rx.ok + 1 =>
             /\ \E tx \in Txs : stores' = [stores EXCEPT ![tx] = @ + 1]
             /\ recv_tx_calls' = <<"txpool.store", "subscribe_transaction">>
       /\ rx'.err = rx.err + 1 =>
             /\ stores' = stores
             /\ recv_tx_calls' = <<>>
       /\ SumOver(stores', Txs) = rx'.ok]_vars

C18_Witness ==
    /\ rx.ok = 1
    /\ rx.err = 1
    /\ SumOver(stores, Txs) = 1

StopOrder == <<"stop", "session.stop", "chain.stop",
               "net_pool.stop", "disk_pool.stop", "mem_pool.stop",
               "net_pool.join", "disk_pool.join", "mem_pool.join">>

\* C19: the calls of one stop() come in the order session stop, chain stop,
\* the stop of the network, disk and memory domain, then the join of the
\* network, disk and memory domain; when stop() has returned each was made
\* exactly once.
C19_StopOrder ==
    /\ \A i \in 1..Len(calls) :
          i > Len(StartOrder) =>
              /\ i - Len(StartOrder) <= Len(StopOrder)
              /\ calls[i] = StopOrder[i - Len(StartOrder)]
    /\ pc = "done" => Len(calls) = Len(StartOrder) + Len(StopOrder)

C19_Witness ==
    /\ pc = "done"
    /\ Count(calls, "mem_pool.join") = 1
    /\ Count(calls, "net_pool.stop") = 1
=============================================================================
